---- MODULE Spec2Model ----
(***************************************************************************)
(* csv2ascii.py: the Formatter class (layout inference, row and separator  *)
(* formatting) and the csv2ascii driver that samples the first rows of a   *)
(* csv reader, builds a Formatter and streams the table.                   *)
(*                                                                         *)
(* Text is a sequence of one-character strings, so that len(), slicing,    *)
(* strip() and center() are computed character by character.               *)
(*                                                                         *)
(* Two specifications share the variables:                                 *)
(*   Spec          the csv2ascii driver, one action per loop iteration;    *)
(*   SpecFormatter a Formatter object used directly (as TestFormatter      *)
(*                 does): constructed once, then one write and one         *)
(*                 write_separator call, in either order.                  *)
(***************************************************************************)
EXTENDS Integers, Sequences, FiniteSets, TLC

VARIABLES
    pc,          \* "loop" | "returned" | "raised" (driver) ; "object" (Formatter used directly)
    kwargs,      \* csv2ascii(**kwargs): output_width, number_of_columns
    consumed,    \* the rows the csv reader has yielded so far, in order
    row_cache,   \* csv2ascii: row_cache
    count,       \* csv2ascii: count
    result,      \* csv2ascii: result (text accumulated so far)
    formatter,   \* the Formatter object: built, output_width, numcols, colwidths
    err,         \* the exception that left the call, type "none" when there is none
    row,         \* argument of the last direct write() call
    out,         \* value returned by the last direct write() call (<<>>: not called)
    sep          \* value returned by the last direct write_separator() call

vars == <<pc, kwargs, consumed, row_cache, count, result, formatter, err, row, out, sep>>

-----------------------------------------------------------------------------
(* Bounds of the model *)

MaxRows == 4       \* rows the reader yields at most
MaxRowLen == 2     \* cells per row at most
MaxCellLen == 3    \* letters per cell at most (surrounding blanks not counted)
MaxWidth == 8      \* largest output_width
MaxColumns == 2    \* largest number_of_columns

(* Program constant *)
sample_length == 2

-----------------------------------------------------------------------------
(* Text helpers *)

Min(a, b) == IF a < b THEN a ELSE b
Max(a, b) == IF a > b THEN a ELSE b

\* c * n
Rep(c, n) == IF n <= 0 THEN <<>> ELSE [i \in 1..n |-> c]

\* s[:k], Python slicing from the start (a negative k counts from the end)
SliceTo(s, k) ==
    IF k >= 0 THEN SubSeq(s, 1, Min(k, Len(s)))
    ELSE SubSeq(s, 1, Max(Len(s) + k, 0))

\* s[:k] of a list of rows
RowSliceTo(r, k) ==
    IF k >= 0 THEN SubSeq(r, 1, Min(k, Len(r)))
    ELSE SubSeq(r, 1, Max(Len(r) + k, 0))

IsSpace(c) == c \in {" ", "\n", "\t"}

\* str.strip(): leading and trailing whitespace removed
strip(s) ==
    LET keep == {i \in 1..Len(s) : ~IsSpace(s[i])}
    IN IF keep = {} THEN <<>>
       ELSE LET a == CHOOSE i \in keep : \A j \in keep : i <= j
                b == CHOOSE i \in keep : \A j \in keep : i >= j
            IN SubSeq(s, a, b)

\* center() as it would be with the odd blank always on the right
center_FloorLeft(s, width) ==
    IF Len(s) >= width THEN s
    ELSE LET marg == width - Len(s)
         IN Rep(" ", marg \div 2) \o s \o Rep(" ", marg - (marg \div 2))

\* str.center(width): CPython pads left with marg/2 + (marg & width & 1)
center(s, width) ==
    IF Len(s) >= width THEN s
    ELSE LET marg == width - Len(s)
             left == (marg \div 2) + (IF marg % 2 = 1 /\ width % 2 = 1 THEN 1 ELSE 0)
         IN Rep(" ", left) \o s \o Rep(" ", marg - left)

-----------------------------------------------------------------------------
(* Formatter *)

NoFormatter == [built |-> FALSE, output_width |-> 0, numcols |-> 0, colwidths |-> <<>>]
NoError == [type |-> "none", arg |-> 0]
Raise(type, arg) == [self |-> NoFormatter, err |-> [type |-> type, arg |-> arg]]

_get_maxcols(sample_rows) ==
    LET lens == {Len(sample_rows[i]) : i \in 1..Len(sample_rows)} \cup {0}
    IN CHOOSE m \in lens : \A l \in lens : l <= m

\* _set_colwidths without the spare screen column: output_width / numcols
_set_colwidths_NoSpare(sample_rows, output_width, numcols) ==
    IF output_width # 0
    THEN IF numcols = 0
         THEN [err |-> "ZeroDivisionError", colwidths |-> <<>>]
         ELSE LET colwidth == IF numcols > 0
                              THEN output_width \div numcols
                              ELSE (0 - output_width) \div (0 - numcols)
              IN [err |-> "none", colwidths |-> Rep(colwidth, numcols)]
    ELSE IF \E i \in 1..Len(sample_rows) : Len(sample_rows[i]) < numcols
         THEN [err |-> "IndexError", colwidths |-> <<>>]
         ELSE [err |-> "none",
               colwidths |->
                   [ii \in 1..Max(numcols, 0) |->
                       LET lens == {Len(sample_rows[i][ii]) : i \in 1..Len(sample_rows)} \cup {0}
                       IN (CHOOSE m \in lens : \A l \in lens : l <= m) + 1]]

\* the colwidths list it leaves, or the exception it raises
_set_colwidths(sample_rows, output_width, numcols) ==
    IF output_width # 0
    THEN IF numcols = 0
         THEN [err |-> "ZeroDivisionError", colwidths |-> <<>>]
         ELSE LET colwidth == IF numcols > 0
                              THEN (output_width - 1) \div numcols
                              ELSE (1 - output_width) \div (0 - numcols)
              IN [err |-> "none", colwidths |-> Rep(colwidth, numcols)]
    ELSE IF \E i \in 1..Len(sample_rows) : Len(sample_rows[i]) < numcols
         THEN [err |-> "IndexError", colwidths |-> <<>>]
         ELSE [err |-> "none",
               colwidths |->
                   [ii \in 1..Max(numcols, 0) |->
                       LET lens == {Len(sample_rows[i][ii]) : i \in 1..Len(sample_rows)} \cup {0}
                       IN (CHOOSE m \in lens : \A l \in lens : l <= m) + 1]]

\* the constructor with the width floor off by one (colwidths[0] < 2)
Formatter_Floor2(sample_rows, output_width, number_of_columns) ==
    LET maxcols == _get_maxcols(sample_rows)
        numcols == IF number_of_columns = 0 THEN maxcols
                   ELSE Min(number_of_columns, maxcols)
        cw == _set_colwidths(sample_rows, output_width, numcols)
    IN IF cw.err # "none" THEN Raise(cw.err, 0)
       ELSE IF Len(cw.colwidths) = 0 THEN Raise("IndexError", 0)
       ELSE IF cw.colwidths[1] < 2 THEN Raise("ValueError", cw.colwidths[1])
       ELSE [self |-> [built |-> TRUE, output_width |-> output_width,
                       numcols |-> numcols, colwidths |-> cw.colwidths],
             err |-> NoError]

\* the constructor without the cap of number_of_columns at maxcols
Formatter_NoCap(sample_rows, output_width, number_of_columns) ==
    LET maxcols == _get_maxcols(sample_rows)
        numcols == IF number_of_columns = 0 THEN maxcols ELSE number_of_columns
        cw == _set_colwidths(sample_rows, output_width, numcols)
    IN IF cw.err # "none" THEN Raise(cw.err, 0)
       ELSE IF Len(cw.colwidths) = 0 THEN Raise("IndexError", 0)
       ELSE IF cw.colwidths[1] < 3 THEN Raise("ValueError", cw.colwidths[1])
       ELSE [self |-> [built |-> TRUE, output_width |-> output_width,
                       numcols |-> numcols, colwidths |-> cw.colwidths],
             err |-> NoError]

\* Formatter(sample_rows, output_width, number_of_columns): the object or the exception
Formatter(sample_rows, output_width, number_of_columns) ==
    LET maxcols == _get_maxcols(sample_rows)
        numcols == IF number_of_columns = 0 THEN maxcols
                   ELSE Min(number_of_columns, maxcols)
        cw == _set_colwidths(sample_rows, output_width, numcols)
    IN IF cw.err # "none" THEN Raise(cw.err, 0)
       ELSE IF Len(cw.colwidths) = 0 THEN Raise("IndexError", 0)
       ELSE IF cw.colwidths[1] < 3 THEN Raise("ValueError", cw.colwidths[1])
       ELSE [self |-> [built |-> TRUE, output_width |-> output_width,
                       numcols |-> numcols, colwidths |-> cw.colwidths],
             err |-> NoError]

\* _format_cell without the cut of over-long content
_format_cell_NoCut(width, content) ==
    center(strip(content), width - 1) \o <<"|">>

\* _format_cell without content.strip()
_format_cell_NoStrip(width, content) ==
    LET cut == IF Len(content) > width - 1 THEN SliceTo(content, width - 1) ELSE content
    IN center(cut, width - 1) \o <<"|">>

_format_cell(width, content) ==
    LET stripped == strip(content)
        cut == IF Len(stripped) > width - 1 THEN SliceTo(stripped, width - 1) ELSE stripped
    IN center(cut, width - 1) \o <<"|">>

RECURSIVE WriteCells(_, _, _)
\* the cells of the row from position count + 1 on, then the blank cells up to numcols
WriteCells(self, cells, cnt) ==
    IF cnt < Len(cells)
    THEN _format_cell(self.colwidths[cnt + 1], cells[cnt + 1]) \o WriteCells(self, cells, cnt + 1)
    ELSE IF cnt < self.numcols
    THEN _format_cell(self.colwidths[cnt + 1], <<" ">>) \o WriteCells(self, cells, cnt + 1)
    ELSE <<>>

write(self, r) ==
    <<"|">> \o WriteCells(self, RowSliceTo(r, self.numcols), 0) \o <<"\n">>

RECURSIVE SeparatorCells(_, _)
SeparatorCells(colwidths, i) ==
    IF i > Len(colwidths) THEN <<>>
    ELSE Rep("-", colwidths[i] - 1) \o <<"+">> \o SeparatorCells(colwidths, i + 1)

write_separator(self) ==
    <<"+">> \o SeparatorCells(self.colwidths, 1) \o <<"\n">>

-----------------------------------------------------------------------------
(* Inputs *)

\* "a", "ab", "aba", ...
Word(k) == [i \in 1..k |-> IF i % 2 = 1 THEN "a" ELSE "b"]

SeqsUpTo(S, n) == UNION {[1..m -> S] : m \in 0..n}

\* cells of sample rows handed to a Formatter directly
SampleCells == {Word(k) : k \in 0..MaxCellLen}
\* cells of rows handed to write(): bare, and with surrounding blanks (k = 0: empty, blank)
Cells == SampleCells \cup {<<" ">> \o Word(k) \o <<" ">> : k \in 0..MaxCellLen}

SampleRows == SeqsUpTo(SampleCells, MaxRowLen)
Samples == UNION {[1..m -> SampleRows] : m \in 0..sample_length}
Rows == SeqsUpTo(Cells, MaxRowLen)

\* rows the csv reader yields: n cells, each "a" or " ab "
DriverCells == {Word(1), <<" ">> \o Word(2) \o <<" ">>}
DriverRows == {[i \in 1..n |-> c] : n \in 0..MaxRowLen, c \in DriverCells}

Widths == (0 - 1)..MaxWidth
Columns == (0 - 1)..MaxColumns

-----------------------------------------------------------------------------
(* csv2ascii *)

Init ==
    /\ pc = "loop"
    /\ kwargs \in [output_width : Widths, number_of_columns : Columns]
    /\ consumed = <<>>
    /\ row_cache = <<>>
    /\ count = 0
    /\ result = <<>>
    /\ formatter = NoFormatter
    /\ err = NoError
    /\ row = <<>>
    /\ out = <<>>
    /\ sep = <<>>

RECURSIVE WriteRows(_, _, _)
\* for oldrow in rows: write(oldrow) + write_separator()
WriteRows(self, rows, i) ==
    IF i > Len(rows) THEN <<>>
    ELSE write(self, rows[i]) \o write_separator(self) \o WriteRows(self, rows, i + 1)

\* count < sample_length
ReadSample(r) ==
    /\ pc = "loop"
    /\ Len(consumed) < MaxRows
    /\ count < sample_length
    /\ row_cache' = Append(row_cache, r)
    /\ consumed' = Append(consumed, r)
    /\ count' = count + 1
    /\ UNCHANGED <<pc, kwargs, result, formatter, err, row, out, sep>>

\* the count == sample_length branch forgetting to write the row it has just read
ReadFirstPast_DropsRow(r) ==
    /\ pc = "loop"
    /\ Len(consumed) < MaxRows
    /\ count = sample_length
    /\ consumed' = Append(consumed, r)
    /\ LET f == Formatter(row_cache, kwargs.output_width, kwargs.number_of_columns)
       IN IF f.err.type # "none"
          THEN /\ pc' = "raised"
               /\ err' = f.err
               /\ UNCHANGED <<formatter, result, count>>
          ELSE /\ formatter' = f.self
               /\ result' = result \o write_separator(f.self)
                                   \o WriteRows(f.self, row_cache, 1)
               /\ count' = count + 1
               /\ UNCHANGED <<pc, err>>
    /\ UNCHANGED <<kwargs, row_cache, row, out, sep>>

\* the count == sample_length branch building the layout from the cache and the current row
ReadFirstPast_SampleIncludesRow(r) ==
    /\ pc = "loop"
    /\ Len(consumed) < MaxRows
    /\ count = sample_length
    /\ consumed' = Append(consumed, r)
    /\ LET f == Formatter(Append(row_cache, r), kwargs.output_width, kwargs.number_of_columns)
       IN IF f.err.type # "none"
          THEN /\ pc' = "raised"
               /\ err' = f.err
               /\ UNCHANGED <<formatter, result, count>>
          ELSE /\ formatter' = f.self
               /\ result' = result \o write_separator(f.self)
                                   \o WriteRows(f.self, row_cache, 1)
                                   \o write(f.self, r) \o write_separator(f.self)
               /\ count' = count + 1
               /\ UNCHANGED <<pc, err>>
    /\ UNCHANGED <<kwargs, row_cache, row, out, sep>>

\* count == sample_length
ReadFirstPast(r) ==
    /\ pc = "loop"
    /\ Len(consumed) < MaxRows
    /\ count = sample_length
    /\ consumed' = Append(consumed, r)
    /\ LET f == Formatter(row_cache, kwargs.output_width, kwargs.number_of_columns)
       IN IF f.err.type # "none"
          THEN /\ pc' = "raised"
               /\ err' = f.err
               /\ UNCHANGED <<formatter, result, count>>
          ELSE /\ formatter' = f.self
               /\ result' = result \o write_separator(f.self)
                                   \o WriteRows(f.self, row_cache, 1)
                                   \o write(f.self, r) \o write_separator(f.self)
               /\ count' = count + 1
               /\ UNCHANGED <<pc, err>>
    /\ UNCHANGED <<kwargs, row_cache, row, out, sep>>

\* count > sample_length
ReadLater(r) ==
    /\ pc = "loop"
    /\ Len(consumed) < MaxRows
    /\ count > sample_length
    /\ consumed' = Append(consumed, r)
    /\ result' = result \o write(formatter, r) \o write_separator(formatter)
    /\ count' = count + 1
    /\ UNCHANGED <<pc, kwargs, row_cache, formatter, err, row, out, sep>>

\* the return flushing a sample that never filled up as a best-effort table
Return_Flush ==
    /\ pc = "loop"
    /\ LET f == Formatter(row_cache, kwargs.output_width, kwargs.number_of_columns)
       IN IF formatter.built \/ row_cache = <<>>
          THEN /\ pc' = "returned"
               /\ UNCHANGED <<formatter, result, err>>
          ELSE IF f.err.type # "none"
          THEN /\ pc' = "raised"
               /\ err' = f.err
               /\ UNCHANGED <<formatter, result>>
          ELSE /\ pc' = "returned"
               /\ formatter' = f.self
               /\ result' = write_separator(f.self) \o WriteRows(f.self, row_cache, 1)
               /\ UNCHANGED err
    /\ UNCHANGED <<kwargs, consumed, row_cache, count, row, out, sep>>

\* the reader is exhausted: return result
Return ==
    /\ pc = "loop"
    /\ pc' = "returned"
    /\ UNCHANGED <<kwargs, consumed, row_cache, count, result, formatter, err, row, out, sep>>

Next ==
    \/ \E r \in DriverRows : ReadSample(r)
    \/ \E r \in DriverRows : ReadFirstPast(r)
    \/ \E r \in DriverRows : ReadLater(r)
    \/ Return

Spec == Init /\ [][Next]_vars

-----------------------------------------------------------------------------
(* A Formatter used directly *)

InitFormatter ==
    /\ pc = "object"
    /\ kwargs = [output_width |-> 0, number_of_columns |-> 0]
    /\ consumed = <<>>
    /\ row_cache = <<>>
    /\ count = 0
    /\ result = <<>>
    /\ formatter = NoFormatter
    /\ err = NoError
    /\ row = <<>>
    /\ out = <<>>
    /\ sep = <<>>

Construct ==
    /\ pc = "object"
    /\ ~formatter.built
    /\ err.type = "none"
    /\ \E sample_rows \in Samples, output_width \in Widths, number_of_columns \in Columns :
          LET f == Formatter(sample_rows, output_width, number_of_columns)
          IN /\ formatter' = f.self
             /\ err' = f.err
    /\ UNCHANGED <<pc, kwargs, consumed, row_cache, count, result, row, out, sep>>

\* one write(row) call on the object; write() leaves the object as it is, so the
\* call is modelled once per object and row
Write ==
    /\ pc = "object"
    /\ formatter.built
    /\ out = <<>>
    /\ \E r \in Rows :
          /\ row' = r
          /\ out' = write(formatter, r)
    /\ UNCHANGED <<pc, kwargs, consumed, row_cache, count, result, formatter, err, sep>>

\* one write_separator() call on the object
WriteSeparator ==
    /\ pc = "object"
    /\ formatter.built
    /\ sep = <<>>
    /\ sep' = write_separator(formatter)
    /\ UNCHANGED <<pc, kwargs, consumed, row_cache, count, result, formatter, err, row, out>>

NextFormatter == Construct \/ Write \/ WriteSeparator

SpecFormatter == InitFormatter /\ [][NextFormatter]_vars

-----------------------------------------------------------------------------
(* Reading a written line back, column by column *)

RECURSIVE SumTo(_, _)
\* colwidths[1] + ... + colwidths[n]
SumTo(colwidths, n) == IF n <= 0 THEN 0 ELSE colwidths[n] + SumTo(colwidths, n - 1)

\* the characters of column i of a line, without the bar that closes it
FieldOf(line, colwidths, i) ==
    SubSeq(line, SumTo(colwidths, i - 1) + 2, SumTo(colwidths, i - 1) + colwidths[i])

\* the character that closes column i of a line
BarOf(line, colwidths, i) == line[SumTo(colwidths, i - 1) + colwidths[i] + 1]

\* number of blanks the field starts with / ends with
LeadingBlanks(f) ==
    Cardinality({n \in 1..Len(f) : \A j \in 1..n : f[j] = " "})
TrailingBlanks(f) ==
    Cardinality({n \in 1..Len(f) : \A j \in (Len(f) - n + 1)..Len(f) : f[j] = " "})

\* the text of s without its surrounding blanks, by position
Trimmed(s) ==
    IF LeadingBlanks(s) = Len(s) THEN <<>>
    ELSE SubSeq(s, LeadingBlanks(s) + 1, Len(s) - TrailingBlanks(s))

\* the first k characters of t (all of t when it is shorter)
Prefix(t, k) == [j \in 1..Min(k, Len(t)) |-> t[j]]

-----------------------------------------------------------------------------
(* Claims about a Formatter used directly (SpecFormatter) *)

\* C1: for every constructed Formatter and every row, write(row) and
\* write_separator() return strings of the same length.
C1_SameLength ==
    (out # <<>> /\ sep # <<>>) => Len(out) = Len(sep)

\* C1 witness: a row longer than numcols with an over-long cell was written, and the separator too
C1_Witness ==
    /\ out # <<>>
    /\ sep # <<>>
    /\ Len(row) > formatter.numcols
    /\ \E i \in 1..formatter.numcols : Len(Trimmed(row[i])) > formatter.colwidths[i] - 1

\* C2: with output_width W > 0 the written line has at most W characters
\* before its newline (at most W + 1 in all).
C2_WithinWidth ==
    (out # <<>> /\ formatter.output_width > 0) => Len(out) <= formatter.output_width + 1

\* C2 witness: a line written under a width that the column count does not divide
C2_Witness ==
    /\ out # <<>>
    /\ formatter.output_width > 0
    /\ formatter.numcols > 1
    /\ (formatter.output_width - 1) % formatter.numcols # 0

\* C7: write(row) renders exactly numcols fields, each colwidths[i]-1 characters
\* closed by one bar; field i of a cell the row has is that cell without its
\* surrounding whitespace, cut to its first colwidths[i]-1 characters, between
\* blanks; cells past numcols do not appear; missing cells are all-blank fields.
C7_Fields ==
    out # <<>> =>
        LET cw == formatter.colwidths
            n == formatter.numcols
        IN /\ Len(cw) = n
           /\ Len(out) = SumTo(cw, n) + 2
           /\ out[1] = "|"
           /\ out[Len(out)] = "\n"
           /\ \A i \in 1..n :
                 /\ BarOf(out, cw, i) = "|"
                 /\ Len(FieldOf(out, cw, i)) = cw[i] - 1
                 /\ IF i <= Len(row)
                    THEN \E l, r \in 0..(cw[i] - 1) :
                            FieldOf(out, cw, i) =
                                Rep(" ", l) \o Prefix(Trimmed(row[i]), cw[i] - 1) \o Rep(" ", r)
                    ELSE FieldOf(out, cw, i) = Rep(" ", cw[i] - 1)

\* C7 witness: a row shorter than numcols whose first cell had to be stripped and cut
C7_Witness ==
    /\ out # <<>>
    /\ Len(row) >= 1
    /\ Len(row) < formatter.numcols
    /\ row[1] # Trimmed(row[1])
    /\ Len(Trimmed(row[1])) > formatter.colwidths[1] - 1

\* the fields of the written line whose text has a first and a last character
\* that is not a blank, so that the padding on each side can be counted
PaddedFields ==
    {i \in 1..Min(Len(row), formatter.numcols) :
        LET t == Prefix(Trimmed(row[i]), formatter.colwidths[i] - 1)
        IN t # <<>> /\ t[1] # " " /\ t[Len(t)] # " "}

\* C10 as stated: when the total padding of a centered cell is odd, the extra
\* blank is on the right, for every field width and text length.
C10_ExtraAlwaysRight ==
    out # <<>> =>
        \A i \in PaddedFields :
            LET f == FieldOf(out, formatter.colwidths, i)
            IN (LeadingBlanks(f) + TrailingBlanks(f)) % 2 = 1
                  => TrailingBlanks(f) = LeadingBlanks(f) + 1

\* C10 amended: when the total padding of a centered cell is odd, the extra
\* blank is on the right when the field width colwidths[i]-1 is even and on
\* the left when it is odd.
C10_ExtraByParity ==
    out # <<>> =>
        \A i \in PaddedFields :
            LET f == FieldOf(out, formatter.colwidths, i)
            IN (LeadingBlanks(f) + TrailingBlanks(f)) % 2 = 1
                  => IF Len(f) % 2 = 0
                     THEN TrailingBlanks(f) = LeadingBlanks(f) + 1
                     ELSE LeadingBlanks(f) = TrailingBlanks(f) + 1

\* C10 witness: fields of odd and of even width, both centered with odd padding
C10_Witness ==
    /\ out # <<>>
    /\ \E i \in PaddedFields :
          LET f == FieldOf(out, formatter.colwidths, i)
          IN Len(f) % 2 = 1 /\ LeadingBlanks(f) = TrailingBlanks(f) + 1
    /\ \E i \in PaddedFields :
          LET f == FieldOf(out, formatter.colwidths, i)
          IN Len(f) % 2 = 0 /\ TrailingBlanks(f) = LeadingBlanks(f) + 1

-----------------------------------------------------------------------------
(* Claims about csv2ascii (Spec) *)

\* the longest row of a list of rows, 0 for no rows
LongestRow(rows) ==
    IF rows = <<>> THEN 0
    ELSE CHOOSE m \in {Len(rows[i]) : i \in 1..Len(rows)} :
             \A i \in 1..Len(rows) : Len(rows[i]) <= m

\* the column count the call asks for, given the sample it buffered
RequestedCols ==
    IF kwargs.number_of_columns = 0 THEN LongestRow(row_cache)
    ELSE Min(kwargs.number_of_columns, LongestRow(row_cache))

\* the Formatter constructor has run (and either returned or raised)
Attempted == formatter.built \/ pc = "raised"

\* line j of a text whose lines all have n characters
LineOf(text, n, j) == SubSeq(text, (j - 1) * n + 1, j * n)

\* C3: with n > sample_length rows read, the returned text is one separator,
\* then for each of the n rows in input order its formatted line followed by
\* one separator: 2n+1 lines, separators at the odd places, row k at place 2k.
C3_Alternation ==
    (pc = "returned" /\ Len(consumed) > sample_length) =>
        LET n == Len(consumed)
            width == Len(write_separator(formatter))
        IN /\ Len(result) = (2 * n + 1) * width
           /\ \A j \in 1..(2 * n + 1) :
                 LineOf(result, width, j) =
                     IF j % 2 = 1 THEN write_separator(formatter)
                     ELSE write(formatter, consumed[j \div 2])

\* C3 witness: a returned table of four rows, the rows past the sample differing
C3_Witness ==
    /\ pc = "returned"
    /\ Len(consumed) = sample_length + 2
    /\ consumed[1] # consumed[2]
    /\ consumed[sample_length + 1] # consumed[sample_length + 2]
    /\ consumed[sample_length + 1] # consumed[1]

\* C4: when the width computed for the first column is below 3, construction
\* raises ValueError carrying that width, and the call leaves no text at all;
\* a Formatter that exists has a first column of at least 3.
C4_NarrowFails ==
    /\ formatter.built => formatter.colwidths[1] >= 3
    /\ Attempted =>
          LET cw == _set_colwidths(row_cache, kwargs.output_width, RequestedCols)
          IN (cw.err = "none" /\ Len(cw.colwidths) > 0 /\ cw.colwidths[1] < 3) =>
                /\ pc = "raised"
                /\ err = [type |-> "ValueError", arg |-> cw.colwidths[1]]
                /\ ~formatter.built
                /\ result = <<>>

\* C4 witness: the call raised the narrow-width error for an inferred width of 2
C4_Witness ==
    /\ pc = "raised"
    /\ kwargs.output_width = 0
    /\ err = [type |-> "ValueError", arg |-> 2]
    /\ result = <<>>

\* C5: with at most sample_length rows in all, no Formatter is constructed and
\* the returned text is empty, whatever the configuration.
C5_ShortInput ==
    (pc = "returned" /\ Len(consumed) <= sample_length) =>
        /\ ~formatter.built
        /\ err = NoError
        /\ result = <<>>

\* C5 witness: exactly sample_length rows under a width too narrow for any table
C5_Witness ==
    /\ pc = "returned"
    /\ Len(consumed) = sample_length
    /\ LongestRow(consumed) > 0
    /\ kwargs.output_width = 1

\* C6: a constructed layout has len(colwidths) = numcols, and numcols is
\* min(requested, maxcols), maxcols when 0 is requested, maxcols being the
\* longest sample row.
C6_Layout ==
    formatter.built =>
        /\ Len(formatter.colwidths) = formatter.numcols
        /\ formatter.numcols =
              IF kwargs.number_of_columns = 0 THEN LongestRow(row_cache)
              ELSE Min(kwargs.number_of_columns, LongestRow(row_cache))

\* C6 witness: a layout built for fewer columns than the sample has
C6_Witness ==
    /\ formatter.built
    /\ kwargs.number_of_columns > 0
    /\ kwargs.number_of_columns < LongestRow(row_cache)
    /\ formatter.numcols = kwargs.number_of_columns

\* C8: the layout exists exactly from the moment the row at index
\* sample_length has been read, and is the layout of the first sample_length
\* rows alone, whatever rows follow and however many lines were written.
C8_LayoutFromSample ==
    /\ formatter.built <=> (pc # "raised" /\ Len(consumed) > sample_length)
    /\ formatter.built =>
          formatter = Formatter(SubSeq(consumed, 1, sample_length),
                                kwargs.output_width, kwargs.number_of_columns).self

\* C8 witness: rows past the sample that are longer than every sample row were written
C8_Witness ==
    /\ formatter.built
    /\ Len(consumed) = sample_length + 2
    /\ Len(consumed[sample_length + 1]) > LongestRow(row_cache)
    /\ Len(consumed[sample_length + 2]) > LongestRow(row_cache)
    /\ consumed[sample_length + 1] # consumed[sample_length + 2]

\* C9: with output_width 0 and a sample row shorter than numcols, construction
\* completes or fails only with the narrow-width error, and each column's width
\* is the longest content seen for it among the sample rows that have it, plus 1.
C9_ShortSampleRowIsSafe ==
    (/\ Attempted
     /\ kwargs.output_width = 0
     /\ \E i \in 1..Len(row_cache) : Len(row_cache[i]) < RequestedCols) =>
        /\ err.type \in {"none", "ValueError"}
        /\ formatter.built =>
              \A ii \in 1..formatter.numcols :
                  \E i \in 1..Len(row_cache) :
                      /\ ii <= Len(row_cache[i])
                      /\ formatter.colwidths[ii] = Len(row_cache[i][ii]) + 1
                      /\ \A k \in 1..Len(row_cache) :
                            ii <= Len(row_cache[k]) => Len(row_cache[k][ii]) <= Len(row_cache[i][ii])

====
